---------------------------- MODULE Spec2Model ----------------------------
(***************************************************************************)
(* Model of the aurora API token module (backend/services/api/src/v1):     *)
(* AuthenticationToken (token.rs) and the refresh handler (routes/auth.rs).*)
(*                                                                         *)
(* Text is a sequence of byte values (Rust strings are UTF-8 bytes), so    *)
(* that base64, UTF-8 validation, decimal formatting/parsing and the       *)
(* big-endian encoding of the generation time are computed, not assumed.   *)
(* Results are records: [tag |-> "Ok", val |-> v], [tag |-> "Err",         *)
(* err |-> name of the TokenError variant], [tag |-> "Panic"].             *)
(***************************************************************************)
EXTENDS Integers, Sequences, FiniteSets, TLC

VARIABLES
    HMAC_SECURITY_KEY,     \* token.rs:77  process secret key (bytes), read-only
    TOKEN_EXPIRATION_TIME, \* token.rs:82  expiration window in seconds
    now,                   \* OffsetDateTime::now_utc() - FIRST_EPOCH, whole ms
    ticks,                 \* number of clock advances so far (bounds the run)
    issued,                \* token records handed out by new / refresh
    op,                    \* the operation that ran last
    arg,                   \* its input
    ret                    \* its outcome

vars == <<HMAC_SECURITY_KEY, TOKEN_EXPIRATION_TIME, now, ticks, issued, op, arg, ret>>

-----------------------------------------------------------------------------
(* Bounds of the model *)

\* Length in bytes of the modelled MAC output (HMAC-SHA-512 gives 64).
DigestLen == 2
\* Clock advances per behaviour.
MaxTicks == 3
\* Token records outstanding per behaviour.
MaxIssued == 2

-----------------------------------------------------------------------------
(* Results *)

Ok(v) == [tag |-> "Ok", val |-> v]
Err(e) == [tag |-> "Err", err |-> e]
Panic == [tag |-> "Panic"]
IsOk(r) == r.tag = "Ok"
IsErr(r, e) == r.tag = "Err" /\ r.err = e

-----------------------------------------------------------------------------
(* Bytes and text *)

\* "Bearer " (token.rs:250, 254)
BearerPrefix == <<66, 101, 97, 114, 101, 114, 32>>

RECURSIVE Join(_, _)
\* [a, b, c].join(sep): the inverse of str::split on one separator byte
Join(parts, sep) ==
    IF Len(parts) = 0 THEN <<>>
    ELSE IF Len(parts) = 1 THEN parts[1]
    ELSE parts[1] \o <<sep>> \o Join(Tail(parts), sep)

RECURSIVE Split(_, _)
\* token.split('.').collect::<Vec<&str>>(): always at least one component
Split(s, sep) ==
    IF \A i \in 1..Len(s) : s[i] # sep THEN <<s>>
    ELSE LET k == CHOOSE i \in 1..Len(s) :
                      s[i] = sep /\ \A j \in 1..(i - 1) : s[j] # sep
         IN  <<SubSeq(s, 1, k - 1)>> \o Split(SubSeq(s, k + 1, Len(s)), sep)

\* str::starts_with
StartsWith(s, p) == Len(s) >= Len(p) /\ SubSeq(s, 1, Len(p)) = p

RECURSIVE TrimStartMatches(_, _)
\* str::trim_start_matches: removes the prefix repeatedly, while it matches
TrimStartMatches(s, p) ==
    IF Len(p) > 0 /\ StartsWith(s, p)
    THEN TrimStartMatches(SubSeq(s, Len(p) + 1, Len(s)), p)
    ELSE s

-----------------------------------------------------------------------------
(* Base64, standard alphabet with padding (BASE64_STANDARD) *)

\* the 64 symbols A-Z a-z 0-9 + / as byte values, indexed 1..64
B64Alphabet ==
    [i \in 1..64 |->
        IF i <= 26 THEN 64 + i
        ELSE IF i <= 52 THEN 70 + i
        ELSE IF i <= 62 THEN i - 5
        ELSE IF i = 63 THEN 43 ELSE 47]

B64Symbols == {B64Alphabet[i] : i \in 1..64}
B64Sym(v) == B64Alphabet[v + 1]
B64Value(c) == CHOOSE v \in 0..63 : B64Alphabet[v + 1] = c

RECURSIVE B64Encode(_)
\* Engine::encode: 3 bytes -> 4 symbols, '=' (61) pads the last group
B64Encode(b) ==
    IF Len(b) = 0 THEN <<>>
    ELSE IF Len(b) = 1 THEN
        <<B64Sym(b[1] \div 4), B64Sym((b[1] % 4) * 16), 61, 61>>
    ELSE IF Len(b) = 2 THEN
        <<B64Sym(b[1] \div 4), B64Sym((b[1] % 4) * 16 + b[2] \div 16),
          B64Sym((b[2] % 16) * 4), 61>>
    ELSE
        <<B64Sym(b[1] \div 4), B64Sym((b[1] % 4) * 16 + b[2] \div 16),
          B64Sym((b[2] % 16) * 4 + b[3] \div 64), B64Sym(b[3] % 64)>>
        \o B64Encode(SubSeq(b, 4, Len(b)))

\* number of trailing '=' of s, at most 2 counted
B64Pad(s) ==
    IF Len(s) >= 1 /\ s[Len(s)] = 61
    THEN (IF Len(s) >= 2 /\ s[Len(s) - 1] = 61 THEN 2 ELSE 1)
    ELSE 0

\* what Engine::decode accepts: canonical padding to a multiple of 4, symbols
\* of the alphabet only, and no bits set beyond the last whole byte
B64Valid(s) ==
    LET m == Len(s) - B64Pad(s)
    IN  /\ Len(s) % 4 = 0
        /\ \A i \in 1..m : s[i] \in B64Symbols
        /\ (B64Pad(s) = 1 => B64Value(s[m]) % 4 = 0)
        /\ (B64Pad(s) = 2 => B64Value(s[m]) % 16 = 0)

RECURSIVE B64Bytes(_)
\* the bytes of the symbol values v (padding removed)
B64Bytes(v) ==
    IF Len(v) < 2 THEN <<>>
    ELSE IF Len(v) = 2 THEN <<v[1] * 4 + v[2] \div 16>>
    ELSE IF Len(v) = 3 THEN
        <<v[1] * 4 + v[2] \div 16, (v[2] % 16) * 16 + v[3] \div 4>>
    ELSE
        <<v[1] * 4 + v[2] \div 16, (v[2] % 16) * 16 + v[3] \div 4,
          (v[3] % 4) * 64 + v[4]>>
        \o B64Bytes(SubSeq(v, 5, Len(v)))

\* BASE64.decode(..)
B64Decode(s) ==
    IF B64Valid(s)
    THEN Ok(B64Bytes([i \in 1..(Len(s) - B64Pad(s)) |-> B64Value(s[i])]))
    ELSE Err("DecodeError")

-----------------------------------------------------------------------------
(* UTF-8, decimal text, big-endian bytes *)

RECURSIVE Utf8Valid(_)
\* String::from_utf8(bytes).is_ok()
Utf8Valid(b) ==
    LET n == Len(b)
        cont(i) == i <= n /\ b[i] \in 128..191
        rest(k) == Utf8Valid(SubSeq(b, k + 1, n))
    IN  IF n = 0 THEN TRUE
        ELSE IF b[1] < 128 THEN rest(1)
        ELSE IF b[1] \in 194..223 THEN cont(2) /\ rest(2)
        ELSE IF b[1] = 224 THEN n >= 2 /\ b[2] \in 160..191 /\ cont(3) /\ rest(3)
        ELSE IF b[1] = 237 THEN n >= 2 /\ b[2] \in 128..159 /\ cont(3) /\ rest(3)
        ELSE IF b[1] \in 225..239 THEN cont(2) /\ cont(3) /\ rest(3)
        ELSE IF b[1] = 240 THEN
            n >= 2 /\ b[2] \in 144..191 /\ cont(3) /\ cont(4) /\ rest(4)
        ELSE IF b[1] \in 241..243 THEN cont(2) /\ cont(3) /\ cont(4) /\ rest(4)
        ELSE IF b[1] = 244 THEN
            n >= 2 /\ b[2] \in 128..143 /\ cont(3) /\ cont(4) /\ rest(4)
        ELSE FALSE

RECURSIVE Digits(_)
\* decimal digits of a natural number, as ASCII
Digits(n) == IF n < 10 THEN <<48 + n>> ELSE Digits(n \div 10) \o <<48 + (n % 10)>>

\* u64 Display (user_id.to_string(), "{user_id}")
U64ToString(n) == Digits(n)

\* i64 Display ("{generation_time}"): '-' (45) before the digits of a negative
I64ToString(n) == IF n < 0 THEN <<45>> \o Digits(-n) ELSE Digits(n)

RECURSIVE DigitsValue(_)
DigitsValue(d) ==
    IF Len(d) = 0 THEN 0
    ELSE DigitsValue(SubSeq(d, 1, Len(d) - 1)) * 10 + (d[Len(d)] - 48)

\* str::parse::<u64>(): an optional '+' (43), then one or more ASCII digits.
\* (Values above u64::MAX are an error too; the inputs of this model stay
\* far below it.)
ParseU64(s) ==
    LET d == IF Len(s) >= 1 /\ s[1] = 43 THEN Tail(s) ELSE s
    IN  IF Len(d) >= 1 /\ \A i \in 1..Len(d) : d[i] \in 48..57
        THEN Ok(DigitsValue(d))
        ELSE Err("ParseIntError")

RECURSIVE NatBytes(_, _)
\* the k low-order bytes of the natural number n, most significant first
NatBytes(n, k) ==
    IF k = 0 THEN <<>> ELSE NatBytes(n \div 256, k - 1) \o <<n % 256>>

RECURSIVE BytesNat(_)
BytesNat(b) ==
    IF Len(b) = 0 THEN 0
    ELSE BytesNat(SubSeq(b, 1, Len(b) - 1)) * 256 + b[Len(b)]

\* i64::to_be_bytes: 8 bytes, two's complement, most significant first
I64ToBeBytes(n) ==
    IF n >= 0 THEN NatBytes(n, 8)
    ELSE LET c == NatBytes(-(n + 1), 8) IN [i \in 1..8 |-> 255 - c[i]]

\* i64::from_be_bytes([u8; 8])
I64FromBeBytes(b) ==
    IF b[1] < 128 THEN BytesNat(b)
    ELSE -(BytesNat([i \in 1..8 |-> 255 - b[i]])) - 1

-----------------------------------------------------------------------------
(* Keyed MAC.  Hmac<Sha512> is modelled as a deterministic keyed digest of  *)
(* DigestLen bytes over the key and the message bytes.                       *)

RECURSIVE Pow256(_)
Pow256(k) == IF k = 0 THEN 1 ELSE 256 * Pow256(k - 1)

RECURSIVE Digest(_, _)
\* a polynomial digest of the bytes b, starting from h
Digest(h, b) ==
    IF Len(b) = 0 THEN h
    ELSE Digest((h * 31 + b[1] + 1) % Pow256(DigestLen), Tail(b))

\* Hmac::<Sha512>::new_from_slice(key), update(msg), finalize().into_bytes()
\* (new_from_slice accepts a key of any length: HmacGeneration never occurs)
Hmac(key, msg) ==
    NatBytes(Digest(Digest(Digest(7, key), msg), key), DigestLen)

\* format!("{user_id}.{generation_time}").as_bytes()
SignedMessage(token) ==
    U64ToString(token.user_id) \o <<46>> \o I64ToString(token.generation_time)

-----------------------------------------------------------------------------
(* AuthenticationToken *)

\* update_secure_parts with the generation time assigned after the MAC is taken
update_secure_parts_stale(token, key, current) ==
    Ok([token EXCEPT !.generation_time = current,
                     !.hmac = Hmac(key, SignedMessage(token))])

\* update_secure_parts(&mut self): the token after the call
update_secure_parts(token, key, current) ==
    LET stamped == [token EXCEPT !.generation_time = current]
    IN  Ok([stamped EXCEPT !.hmac = Hmac(key, SignedMessage(stamped))])

\* AuthenticationToken::new(user_id)
new(user_id, key, current) ==
    update_secure_parts(
        [user_id |-> user_id, generation_time |-> 0, hmac |-> <<>>], key, current)

\* verify over the base64 forms of the two fields, not their decimal forms
verify_base64_message(token, key) ==
    IF Hmac(key, B64Encode(U64ToString(token.user_id)) \o <<46>>
                 \o B64Encode(I64ToBeBytes(token.generation_time))) = token.hmac
    THEN Ok(<<>>)
    ELSE Err("HmacVerification")

\* verify that compares only as many bytes as the presented MAC has
verify_prefix(token, key) ==
    IF SubSeq(Hmac(key, SignedMessage(token)), 1, Len(token.hmac)) = token.hmac
    THEN Ok(<<>>)
    ELSE Err("HmacVerification")

\* verify(&self): verify_slice fails on any difference, of length too
verify(token, key) ==
    IF Hmac(key, SignedMessage(token)) = token.hmac
    THEN Ok(<<>>)
    ELSE Err("HmacVerification")

\* expired with the boundary included
expired_inclusive(token, current, expiration) ==
    current - token.generation_time >= expiration * 1000

\* expired(&self)
expired(token, current, expiration) ==
    current - token.generation_time > expiration * 1000

\* the encoding with the generation time written as decimal text
StringFrom_decimal_time(token) ==
    Join(<<B64Encode(U64ToString(token.user_id)),
           B64Encode(I64ToString(token.generation_time)),
           B64Encode(token.hmac)>>, 46)

\* impl From<AuthenticationToken> for String
StringFrom(token) ==
    Join(<<B64Encode(U64ToString(token.user_id)),
           B64Encode(I64ToBeBytes(token.generation_time)),
           B64Encode(token.hmac)>>, 46)

\* from_token, the user ID block (token.rs:185-198)
DecodeUserId(component) ==
    LET base64_decoded == B64Decode(component)
    IN  IF ~IsOk(base64_decoded) THEN Err("UserIdBase64Decoding")
        ELSE IF ~Utf8Valid(base64_decoded.val) THEN Err("UserIdUtf8Decoding")
        ELSE IF ~IsOk(ParseU64(base64_decoded.val)) THEN Err("UserIdParsing")
        ELSE ParseU64(base64_decoded.val)

\* from_token, the generation time block (token.rs:203-212):
\* copy_from_slice panics unless the source is exactly 8 bytes long
DecodeGenerationTime(component) ==
    LET base64_decoded == B64Decode(component)
    IN  IF ~IsOk(base64_decoded) THEN Err("GenerationTimeDecoding")
        ELSE IF Len(base64_decoded.val) # 8 THEN Panic
        ELSE Ok(I64FromBeBytes(base64_decoded.val))

\* from_token, the HMAC block (token.rs:217-223)
DecodeHmac(component) ==
    LET base64_decoded == B64Decode(component)
    IN  IF ~IsOk(base64_decoded) THEN Err("HmacDecoding") ELSE base64_decoded

\* from_token up to the construction of the record (token.rs:178-229)
DecodeFields(s) ==
    LET components == Split(s, 46)
    IN  IF Len(components) < 3 THEN Err("InvalidFormat")
        ELSE LET user_id == DecodeUserId(components[1])
                 generation_time == DecodeGenerationTime(components[2])
                 hmac == DecodeHmac(components[3])
             IN  IF ~IsOk(user_id) THEN user_id
                 ELSE IF ~IsOk(generation_time) THEN generation_time
                 ELSE IF ~IsOk(hmac) THEN hmac
                 ELSE Ok([user_id |-> user_id.val,
                          generation_time |-> generation_time.val,
                          hmac |-> hmac.val])

\* from_token that returns the decoded record unverified
from_token_unverified(s, key) == DecodeFields(s)

\* from_token(token): the decoded record is returned only if it verifies
from_token(s, key) ==
    LET token == DecodeFields(s)
    IN  IF ~IsOk(token) THEN token
        ELSE IF ~IsOk(verify(token.val, key)) THEN verify(token.val, key)
        ELSE token

\* The Authorization entry of a HeaderMap: absent, or a value of bytes
NoHeader == [present |-> FALSE]
Header(value) == [present |-> TRUE, value |-> value]

\* HeaderValue::to_str succeeds on visible ASCII (and tab) only
HeaderToStrOk(value) ==
    \A i \in 1..Len(value) : value[i] \in 32..126 \/ value[i] = 9

\* from_headers that looks for the prefix before checking the encoding
from_headers_prefix_first(headers, key) ==
    IF ~headers.present THEN Err("MissingAuthorizationHeader")
    ELSE IF ~StartsWith(headers.value, BearerPrefix)
         THEN Err("InvalidAuthorizationHeaderFormat")
    ELSE IF ~HeaderToStrOk(headers.value) THEN Err("InvalidAuthorizationHeader")
    ELSE from_token(TrimStartMatches(headers.value, BearerPrefix), key)

\* from_headers(headers)
from_headers(headers, key) ==
    IF ~headers.present THEN Err("MissingAuthorizationHeader")
    ELSE IF ~HeaderToStrOk(headers.value) THEN Err("InvalidAuthorizationHeader")
    ELSE IF ~StartsWith(headers.value, BearerPrefix)
         THEN Err("InvalidAuthorizationHeaderFormat")
    ELSE from_token(TrimStartMatches(headers.value, BearerPrefix), key)

\* token.refresh() as called by get_login: a new record for the same user,
\* stamped and signed now; the record it is called on is left as it is
refresh(token, key, current) == update_secure_parts(token, key, current)

\* get_login without the expiry check
get_login_no_expiry(headers, key, current, expiration) ==
    LET token == from_headers(headers, key)
    IN  IF ~IsOk(token) THEN token
        ELSE refresh(token.val, key, current)

\* get_login(headers): the new record, or the error the request ends with
\* (a TokenError leaves through `?` under its own name)
get_login(headers, key, current, expiration) ==
    LET token == from_headers(headers, key)
    IN  IF ~IsOk(token) THEN token
        ELSE IF expired(token.val, current, expiration) THEN Err("ExpiredToken")
        ELSE refresh(token.val, key, current)

-----------------------------------------------------------------------------
(* Inputs *)

\* secret keys a process may be configured with: "k1", "k2"
Keys == {<<107, 49>>, <<107, 50>>}

\* configured expiration windows, in seconds
ExpirationTimes == {1, 2}

\* user IDs of one, two and three decimal digits
UserIds == {0, 42, 183}

\* the clock at start, in ms relative to FIRST_EPOCH (negative: before it)
StartTimes == {-1, 1500}

\* amounts of time that pass between two operations, in ms
TickSteps == {1, 1000}

\* the expiration window in milliseconds
WindowMs == TOKEN_EXPIRATION_TIME * 1000

\* generation times of the records presented to the codec
GenerationTimes == {now, now - WindowMs, now - WindowMs - 1, 0, -300}

Sign(user_id, generation_time) ==
    Hmac(HMAC_SECURITY_KEY,
         SignedMessage([user_id |-> user_id, generation_time |-> generation_time]))

\* records signed under the process key
SignedRecords ==
    {[user_id |-> u, generation_time |-> g, hmac |-> Sign(u, g)] :
        u \in UserIds, g \in GenerationTimes}

\* MACs other than m: empty, one byte changed, one byte longer or shorter
OtherMacs(m) ==
    {<<>>, [m EXCEPT ![1] = (@ + 1) % 256], [m EXCEPT ![Len(m)] = (@ + 16) % 256],
     m \o <<0>>, SubSeq(m, 1, Len(m) - 1)}

\* records whose MAC is not the MAC of their fields under the process key:
\* an altered MAC, the MAC of another record, or a MAC made with another key
ForgedRecords ==
    {[r EXCEPT !.hmac = m] :
        r \in {x \in SignedRecords : x.user_id = 42},
        m \in UNION {OtherMacs(x.hmac) : x \in SignedRecords}
               \cup {Hmac(k, SignedMessage(x)) : k \in Keys, x \in SignedRecords}}
    \ SignedRecords

CodecRecords == SignedRecords \cup ForgedRecords

\* the segment seg with one symbol replaced, or one symbol dropped or added
AlteredSegments(seg) ==
    ({[seg EXCEPT ![i] = c] : i \in 1..Len(seg), c \in {65, 66, 81, 47, 61, 33}}
     \cup {SubSeq(seg, 1, Len(seg) - 1), seg \o <<65>>, <<>>})
    \ {seg}

\* signed tokens with the signature segment altered
TamperedStrings ==
    {Join(<<Split(StringFrom(r), 46)[1], Split(StringFrom(r), 46)[2], a>>, 46) :
        r \in {x \in SignedRecords : x.user_id = 42},
        a \in UNION {AlteredSegments(Split(StringFrom(x), 46)[3]) :
                        x \in {y \in SignedRecords : y.user_id = 42}}}

\* user ID segments: "42"; "invalid" (not base64); "NDI" (padding missing);
\* the bytes C3 28 (not UTF-8); "abc", "" and "-1" (not a u64); "+42"
UserIdSegments ==
    {B64Encode(<<52, 50>>), <<105, 110, 118, 97, 108, 105, 100>>, <<78, 68, 73>>,
     B64Encode(<<195, 40>>), B64Encode(<<97, 98, 99>>), <<>>,
     B64Encode(<<45, 49>>), B64Encode(<<43, 52, 50>>)}

\* generation time segments: 8 bytes; "token" and "AAAAAAAA0Fw!=" (not
\* base64); 0, 7 and 9 bytes
GenerationTimeSegments ==
    {B64Encode(I64ToBeBytes(now)), <<116, 111, 107, 101, 110>>,
     <<65, 65, 65, 65, 65, 65, 65, 65, 48, 70, 119, 33, 61>>,
     <<>>, B64Encode(<<0, 0, 0, 0, 0, 0, 1>>),
     B64Encode(<<0, 0, 0, 0, 0, 0, 0, 0, 1>>)}

\* signature segments: the MAC of (42, now); another MAC; "invalid" and "!="
SignatureSegments ==
    {B64Encode(Sign(42, now)), B64Encode(Sign(183, now)),
     <<105, 110, 118, 97, 108, 105, 100>>, <<33, 61>>}

\* "invalid token", "invalid.token", "", ".", and a signed token with a
\* fourth component
MalformedStrings ==
    {<<105, 110, 118, 97, 108, 105, 100, 32, 116, 111, 107, 101, 110>>,
     <<105, 110, 118, 97, 108, 105, 100, 46, 116, 111, 107, 101, 110>>,
     <<>>, <<46>>}
    \cup {StringFrom(r) \o <<46, 120>> : r \in {x \in SignedRecords : x.user_id = 42}}

\* strings presented to from_token that no encoding step produced
TokenStrings ==
    TamperedStrings
    \cup {Join(<<a, b, c>>, 46) :
            a \in UserIdSegments, b \in GenerationTimeSegments, c \in SignatureSegments}
    \cup MalformedStrings

\* header values: a token string as it is, behind "Bearer ", behind "bearer ",
\* behind "Bearer" and behind "Bearer Bearer "; and the same with bytes that
\* are not visible ASCII
HeaderValues ==
    LET payloads == {StringFrom(r) : r \in CodecRecords} \cup MalformedStrings
                    \cup {<<195, 40>>, <<84, 111, 107, 101, 110, 32, 120, 121, 122>>}
    IN  payloads
        \cup {BearerPrefix \o s : s \in payloads}
        \cup {<<98>> \o Tail(BearerPrefix) \o s : s \in payloads}
        \cup {SubSeq(BearerPrefix, 1, 6) \o s : s \in payloads}
        \cup {BearerPrefix \o BearerPrefix \o s : s \in payloads}
        \cup {s \o <<200>> : s \in payloads}

Headers == {NoHeader} \cup {Header(v) : v \in HeaderValues}

-----------------------------------------------------------------------------
(* The token codec and authority applied to the inputs above: one call per *)
(* behaviour, from each configuration and clock reading (the functions keep *)
(* no state between calls), or an encoding followed by the decoding of the  *)
(* string it produced.                                                      *)

InitCodec ==
    /\ HMAC_SECURITY_KEY \in Keys
    /\ TOKEN_EXPIRATION_TIME \in ExpirationTimes
    /\ now \in StartTimes
    /\ ticks = 0
    /\ issued = {}
    /\ op = "init"
    /\ arg = <<>>
    /\ ret = Ok(<<>>)

Config == <<HMAC_SECURITY_KEY, TOKEN_EXPIRATION_TIME>>

\* String::from(token)
Encode ==
    /\ op = "init"
    /\ \E r \in CodecRecords :
          op' = "encode" /\ arg' = r /\ ret' = Ok(StringFrom(r))
    /\ UNCHANGED <<Config, now, ticks, issued>>

\* AuthenticationToken::from_token(s), of a string from outside
FromToken ==
    /\ op = "init"
    /\ \E s \in TokenStrings :
          op' = "from_token" /\ arg' = s /\ ret' = from_token(s, HMAC_SECURITY_KEY)
    /\ UNCHANGED <<Config, now, ticks, issued>>

\* AuthenticationToken::from_token(s), of the string just encoded
FromEncoded ==
    /\ op = "encode"
    /\ op' = "from_token" /\ arg' = ret.val
    /\ ret' = from_token(ret.val, HMAC_SECURITY_KEY)
    /\ UNCHANGED <<Config, now, ticks, issued>>

\* AuthenticationToken::from_headers(h)
FromHeaders ==
    /\ op = "init"
    /\ \E h \in Headers :
          op' = "from_headers" /\ arg' = h
          /\ ret' = from_headers(h, HMAC_SECURITY_KEY)
    /\ UNCHANGED <<Config, now, ticks, issued>>

\* token.verify()
Verify ==
    /\ op = "init"
    /\ \E r \in CodecRecords :
          op' = "verify" /\ arg' = r /\ ret' = verify(r, HMAC_SECURITY_KEY)
    /\ UNCHANGED <<Config, now, ticks, issued>>

\* token.expired()
Expired ==
    /\ op = "init"
    /\ \E r \in CodecRecords :
          op' = "expired" /\ arg' = r
          /\ ret' = Ok(expired(r, now, TOKEN_EXPIRATION_TIME))
    /\ UNCHANGED <<Config, now, ticks, issued>>

NextCodec ==
    \/ Encode
    \/ FromToken
    \/ FromEncoded
    \/ FromHeaders
    \/ Verify
    \/ Expired

SpecCodec == InitCodec /\ [][NextCodec]_vars

-----------------------------------------------------------------------------
(* The service: tokens are issued, time passes, tokens are refreshed *)

Init ==
    /\ HMAC_SECURITY_KEY \in Keys
    /\ TOKEN_EXPIRATION_TIME = 1
    /\ now = -1
    /\ ticks = 0
    /\ issued = {}
    /\ op = "init"
    /\ arg = <<>>
    /\ ret = Ok(<<>>)

\* time passes
Tick(d) ==
    /\ ticks < MaxTicks
    /\ now' = now + d /\ ticks' = ticks + 1
    /\ op' = "tick" /\ arg' = d /\ ret' = Ok(<<>>)
    /\ UNCHANGED <<Config, issued>>

\* AuthenticationToken::new(user_id), as in post_login
New(user_id) ==
    LET token == new(user_id, HMAC_SECURITY_KEY, now)
    IN  /\ Cardinality(issued \cup {token.val}) <= MaxIssued
        /\ issued' = issued \cup {token.val}
        /\ op' = "new" /\ arg' = user_id /\ ret' = token
        /\ UNCHANGED <<Config, now, ticks>>

\* what a client holding the issued tokens may send to GET /auth/login: no
\* header, a token it holds, one restamped to the present without the key, or
\* one rewritten for another user without the key
LoginHeaders ==
    {NoHeader}
    \cup {Header(BearerPrefix \o StringFrom(t)) : t \in issued}
    \cup {Header(BearerPrefix \o StringFrom([t EXCEPT !.generation_time = now])) :
            t \in issued}
    \cup {Header(BearerPrefix \o StringFrom([t EXCEPT !.user_id = @ + 1])) :
            t \in issued}

\* GET /auth/login
GetLogin(h) ==
    \E new_token \in {get_login(h, HMAC_SECURITY_KEY, now, TOKEN_EXPIRATION_TIME)} :
        /\ op' = "get_login" /\ arg' = h
        /\ IF IsOk(new_token)
           THEN /\ Cardinality(issued \cup {new_token.val}) <= MaxIssued
                /\ issued' = issued \cup {new_token.val}
                /\ ret' = Ok(StringFrom(new_token.val))
           ELSE /\ issued' = issued
                /\ ret' = new_token
        /\ UNCHANGED <<Config, now, ticks>>

Next ==
    \/ \E d \in TickSteps : Tick(d)
    \/ \E u \in {0, 183} : New(u)
    \/ \E h \in LoginHeaders : GetLogin(h)

Spec == Init /\ [][Next]_vars

-----------------------------------------------------------------------------
(* Properties *)

\* the TokenError variants of a user ID segment that does not decode
UserIdErrors == {"UserIdBase64Decoding", "UserIdUtf8Decoding", "UserIdParsing"}

\* s is a signed token whose signature segment was replaced by another value
Tampered(s) ==
    \E r \in SignedRecords :
        LET c == Split(s, 46)
            o == Split(StringFrom(r), 46)
        IN  Len(c) = 3 /\ c[1] = o[1] /\ c[2] = o[2] /\ c[3] # o[3]

\* C1: the record AuthenticationToken::new(user_id) returns, whatever the
\* clock reads at signing, is for that user and passes verify() under the same
\* secret key.
C1_SignThenVerify ==
    op = "new" =>
        /\ IsOk(ret)
        /\ ret.val.user_id = arg
        /\ ret.val.generation_time = now
        /\ verify(ret.val, HMAC_SECURITY_KEY) = Ok(<<>>)

\* a token signed while the clock reads a time before FIRST_EPOCH
C1_Witness ==
    /\ op = "new" /\ IsOk(ret) /\ ret.val.generation_time < 0
    /\ verify(ret.val, HMAC_SECURITY_KEY) = Ok(<<>>)

\* C2 as stated: a signed token whose signature segment is changed to any
\* other value is rejected by from_token with HmacVerification.
C2_TamperedIsMismatch ==
    (op = "from_token" /\ Tampered(arg)) => IsErr(ret, "HmacVerification")

\* C2 as amended: a signed token whose signature segment is changed to any
\* other value is never accepted; from_token fails with HmacVerification when
\* the altered segment is still base64, and with HmacDecoding when it is not.
C2_TamperedRejected ==
    (op = "from_token" /\ Tampered(arg)) =>
        IF B64Valid(Split(arg, 46)[3])
        THEN IsErr(ret, "HmacVerification")
        ELSE IsErr(ret, "HmacDecoding")

\* a signed token with a signature segment that is base64 of other bytes
C2_Witness ==
    /\ op = "from_token" /\ Tampered(arg)
    /\ B64Valid(Split(arg, 46)[3]) /\ Len(Split(arg, 46)[3]) > 0
    /\ IsErr(ret, "HmacVerification")

\* C3 as stated: from_token(String::from(record)) gives the record back for
\* every record, whether or not its MAC is the MAC of its fields.
C3_RoundTripAnyRecord ==
    [][(op = "encode" /\ op' = "from_token" /\ arg' = ret.val) => ret' = Ok(arg)]_vars

\* C3 as amended: the fields decoded from String::from(record) are the
\* record's, for every record; from_token returns the record when its MAC is
\* the MAC of its fields under the process key, and HmacVerification when not.
C3_RoundTripSigned ==
    [][(op = "encode" /\ op' = "from_token" /\ arg' = ret.val) =>
          /\ DecodeFields(arg') = Ok(arg)
          /\ IF arg.hmac = Sign(arg.user_id, arg.generation_time)
             THEN ret' = Ok(arg)
             ELSE IsErr(ret', "HmacVerification")]_vars

\* a signed record with a negative generation time that came back
C3_Witness ==
    /\ op = "from_token" /\ IsOk(ret) /\ ret.val.generation_time < 0
    /\ ret.val.user_id = 183
    /\ arg = StringFrom(ret.val)

\* C4: when the user ID decodes and segment 1 is base64 of a byte sequence
\* that is not 8 bytes long, from_token returns GenerationTimeDecoding.
C4_WrongLengthIsError ==
    (/\ op = "from_token"
     /\ Len(Split(arg, 46)) >= 3
     /\ IsOk(DecodeUserId(Split(arg, 46)[1]))
     /\ B64Valid(Split(arg, 46)[2])
     /\ Len(B64Decode(Split(arg, 46)[2]).val) # 8)
    => IsErr(ret, "GenerationTimeDecoding")

\* C5: expired() is true exactly when the clock is more than the expiration
\* window past the generation time, both in milliseconds since FIRST_EPOCH: a
\* record generated exactly one window ago is not expired, one generated a
\* millisecond earlier is.
C5_ExpirationBoundary ==
    op = "expired" =>
        /\ ret.val <=> (now - arg.generation_time > TOKEN_EXPIRATION_TIME * 1000)
        /\ (arg.generation_time = now - TOKEN_EXPIRATION_TIME * 1000 => ~ret.val)
        /\ (arg.generation_time = now - TOKEN_EXPIRATION_TIME * 1000 - 1 => ret.val)

\* a record generated exactly one window ago, found not expired
C5_Witness ==
    /\ op = "expired"
    /\ arg.generation_time = now - TOKEN_EXPIRATION_TIME * 1000
    /\ ret = Ok(FALSE)

\* C6: from_token reports the first failing shape check: the component count,
\* then the user ID, then the generation time (base64 and length), then the
\* base64 of the MAC; HmacVerification only when all three segments decode.
C6_FirstFailingCheck ==
    op = "from_token" =>
        LET c == Split(arg, 46)
            bad0 == \/ ~B64Valid(c[1])
                    \/ ~Utf8Valid(B64Decode(c[1]).val)
                    \/ ~IsOk(ParseU64(B64Decode(c[1]).val))
            bad1 == ~B64Valid(c[2]) \/ Len(B64Decode(c[2]).val) # 8
            bad2 == ~B64Valid(c[3])
        IN  IF Len(c) < 3 THEN IsErr(ret, "InvalidFormat")
            ELSE IF bad0 THEN ret.tag = "Err" /\ ret.err \in UserIdErrors
            ELSE IF bad1 THEN IsErr(ret, "GenerationTimeDecoding")
            ELSE IF bad2 THEN IsErr(ret, "HmacDecoding")
            ELSE IsOk(ret) \/ IsErr(ret, "HmacVerification")

\* C7: from_headers fails with MissingAuthorizationHeader when there is no
\* Authorization header, with InvalidAuthorizationHeader when its value is
\* not text, whatever it starts with, and with
\* InvalidAuthorizationHeaderFormat when it is text that does not start with
\* "Bearer ", whatever follows; none of the three returns a record.
C7_HeaderClassification ==
    op = "from_headers" =>
        LET text == \A i \in 1..Len(arg.value) : arg.value[i] < 128
        IN  IF ~arg.present THEN IsErr(ret, "MissingAuthorizationHeader")
            ELSE IF ~text THEN IsErr(ret, "InvalidAuthorizationHeader")
            ELSE IF \/ Len(arg.value) < 7
                    \/ SubSeq(arg.value, 1, 7) # <<66, 101, 97, 114, 101, 114, 32>>
                 THEN IsErr(ret, "InvalidAuthorizationHeaderFormat")
            ELSE TRUE

\* a value starting with "Bearer " that is not text, and a value that is a
\* signed token without the prefix: the first of these
C7_Witness ==
    /\ op = "from_headers" /\ arg.present
    /\ StartsWith(arg.value, BearerPrefix)
    /\ \E i \in 1..Len(arg.value) : arg.value[i] >= 128
    /\ IsErr(ret, "InvalidAuthorizationHeader")

\* C8: for a textual header value that starts with "Bearer ", from_headers
\* has the outcome of from_token on the value with its first 7 bytes removed.
C8_PrefixRemovedOnce ==
    (/\ op = "from_headers" /\ arg.present
     /\ HeaderToStrOk(arg.value)
     /\ StartsWith(arg.value, BearerPrefix))
    => ret = from_token(SubSeq(arg.value, 8, Len(arg.value)), HMAC_SECURITY_KEY)

\* C9: a refresh leaves every outstanding record as it was. The new record is
\* for the same user, stamped now, and verifies; every outstanding record,
\* the refreshed original included, still verifies, and presented again it is
\* accepted (and refreshed) until its own window has elapsed and answered
\* with ExpiredToken after that.
C9_RefreshNonRevocation ==
    [][/\ \A t \in issued :
             /\ t \in issued'
             /\ verify(t, HMAC_SECURITY_KEY') = Ok(<<>>)
             /\ (op' = "get_login" /\ arg' = Header(BearerPrefix \o StringFrom(t))) =>
                    IF now' - t.generation_time > TOKEN_EXPIRATION_TIME' * 1000
                    THEN IsErr(ret', "ExpiredToken")
                    ELSE \E n \in issued' :
                            /\ ret' = Ok(StringFrom(n))
                            /\ n.user_id = t.user_id
                            /\ n.generation_time = now'
                            /\ verify(n, HMAC_SECURITY_KEY') = Ok(<<>>)
       /\ (op' = "get_login" /\ IsOk(ret')) =>
             \E t \in issued : arg' = Header(BearerPrefix \o StringFrom(t))
      ]_vars

\* after a refresh at a later time, the original and the new record are both
\* outstanding
C9_Witness ==
    /\ op = "get_login" /\ IsOk(ret)
    /\ \E orig \in issued, n \in issued :
          /\ arg = Header(BearerPrefix \o StringFrom(orig))
          /\ ret.val = StringFrom(n)
          /\ orig.generation_time < n.generation_time
          /\ verify(orig, HMAC_SECURITY_KEY) = Ok(<<>>)

\* C10 as stated: from_token has the same outcome under any two secret keys.
C10_KeyIndependent ==
    op = "from_token" => \A k \in Keys : from_token(arg, k) = ret

\* C10 as amended: the shape checks of from_token do not depend on the secret
\* key (an input that fails one fails it alike under every key, and the
\* decoded fields are the same), but from_token then verifies the record: a
\* well-formed token whose MAC is wrong under the process key is rejected by
\* from_token itself, with HmacVerification.
C10_ShapeChecksKeyIndependent ==
    op = "from_token" =>
        /\ \A k \in Keys :
              IF IsOk(DecodeFields(arg))
              THEN from_token(arg, k) \in {DecodeFields(arg), Err("HmacVerification")}
              ELSE from_token(arg, k) = ret
        /\ (IsOk(DecodeFields(arg))
            /\ DecodeFields(arg).val.hmac
                 # Sign(DecodeFields(arg).val.user_id,
                        DecodeFields(arg).val.generation_time))
           => IsErr(ret, "HmacVerification")

\* a token signed under another key: well-formed, and rejected
C10_Witness ==
    /\ op = "from_token" /\ IsErr(ret, "HmacVerification")
    /\ \E k \in Keys : IsOk(from_token(arg, k))

\* C11: GET /auth/login extracts, decodes and verifies the presented token,
\* then checks its expiry, then re-signs. A request that fails extraction,
\* decoding or verification ends with that error, expired or not; a validly
\* signed but expired token ends with ExpiredToken; in neither case is a
\* record issued. A token is issued only for a verified, unexpired token, for
\* the same user, stamped now.
C11_RefreshOrder ==
    [][op' = "get_login" =>
          \A token \in {from_headers(arg', HMAC_SECURITY_KEY)} :
          LET window == TOKEN_EXPIRATION_TIME * 1000
          IN  IF ~IsOk(token)
              THEN ret' = token /\ issued' = issued
              ELSE IF now - token.val.generation_time > window
              THEN IsErr(ret', "ExpiredToken") /\ issued' = issued
              ELSE /\ token.val.hmac
                        = Hmac(HMAC_SECURITY_KEY, SignedMessage(token.val))
                   /\ \E n \in issued' :
                         /\ ret' = Ok(StringFrom(n))
                         /\ n.user_id = token.val.user_id
                         /\ n.generation_time = now
                         /\ issued' = issued \cup {n}
      ]_vars

\* a validly signed token presented after its window: answered ExpiredToken
C11_Witness ==
    /\ op = "get_login" /\ IsErr(ret, "ExpiredToken")
    /\ \E t \in issued :
          /\ arg = Header(BearerPrefix \o StringFrom(t))
          /\ verify(t, HMAC_SECURITY_KEY) = Ok(<<>>)
          /\ now - t.generation_time > TOKEN_EXPIRATION_TIME * 1000

\* C12: a record that from_token or from_headers returns carries the MAC of
\* "<user_id>.<generation_time>" under the process secret key, so verify()
\* succeeds on it: no string from outside yields an unverified record.
C12_OnlyVerifiedRecords ==
    (op \in {"from_token", "from_headers"} /\ IsOk(ret)) =>
        /\ ret.val.hmac
             = Hmac(HMAC_SECURITY_KEY,
                    U64ToString(ret.val.user_id) \o <<46>>
                    \o I64ToString(ret.val.generation_time))
        /\ verify(ret.val, HMAC_SECURITY_KEY) = Ok(<<>>)

\* a header carrying a signed token, accepted
C12_Witness ==
    /\ op = "from_headers" /\ IsOk(ret)
    /\ arg.value = BearerPrefix \o StringFrom(ret.val)
    /\ ret.val.hmac = Sign(ret.val.user_id, ret.val.generation_time)

=============================================================================
